---- MODULE Spec2Model ----
(***************************************************************************)
(* The transaction ledger of the three finance dashboards                  *)
(*   src/DDP_PROJECT/DDP_PROJECT.py   (operators and actions DDP_...)      *)
(*   src/DDP_PROJECT/b.py             (operators and actions b_...)        *)
(*   src/cobacoba.py                  (operators and actions coba_...)     *)
(* Each file keeps its own st.session_state.transactions, a list of dicts  *)
(* with the keys date, description, amount, category, type.  One behaviour *)
(* of the model is one session of one of the three programs; `variant`     *)
(* says which.                                                             *)
(***************************************************************************)
EXTENDS Integers, Sequences, FiniteSets, TLC

VARIABLES
    variant,        \* the program that runs: "DDP_PROJECT", "b" or "cobacoba"
    transactions,   \* st.session_state.transactions
    last,           \* the call made by the last step, and what it reported
    view            \* what the last query page computed

vars == <<variant, transactions, last, view>>

-----------------------------------------------------------------------------
(* Bounds and input sets                                                   *)

MaxLen == 3

Variants == {"DDP_PROJECT", "b", "cobacoba"}

Tx(date, description, amount, category, type) ==
    [date |-> date, description |-> description, amount |-> amount,
     category |-> category, type |-> type]

\* Arguments of add_transaction: accepted ones (two dates, two amounts, both
\* types, an empty and a non-empty description, a category outside the
\* widget's list) and rejected or doubtful ones (amount 0, amount -5, a type
\* outside Income/Expense).
AddInputs ==
    {Tx(d, "", a, "Food", t) : d \in {1, 2}, a \in {1, 2}, t \in {"Income", "Expense"}}
    \cup {Tx(1, "Bus", 1, "Pets", "Expense"),
          Tx(1, "", 1, "Food", "Transfer"),
          Tx(1, "", 0, "Food", "Income"),
          Tx(2, "Bus", -5, "Pets", "Expense"),
          Tx(2, "Bus", -5, "Food", "Transfer")}

\* Arguments of delete_transaction on a list of length n: every valid index,
\* the first invalid ones on both sides, and one further out.
DeleteInputs(n) == (-2) .. (n + 1)

NoTx == Tx(0, "", 0, "", "")

-----------------------------------------------------------------------------
(* Python built-ins used by the three files                                *)

\* sum(xs): left fold of + from 0
RECURSIVE py_sum(_)
py_sum(xs) ==
    IF xs = <<>> THEN 0
    ELSE py_sum(SubSeq(xs, 1, Len(xs) - 1)) + xs[Len(xs)]

\* [t['amount'] for t in transactions if t['type'] == type]
AmountsOfType(txs, type) ==
    LET sel == SelectSeq(txs, LAMBDA t : t.type = type)
    IN  [i \in 1 .. Len(sel) |-> sel[i].amount]

\* del transactions[index], index 0-based and in range
py_del(txs, index) ==
    [j \in 1 .. (Len(txs) - 1) |-> IF j <= index THEN txs[j] ELSE txs[j + 1]]

\* What a ledger call leaves behind: the list, and the st.error / st.success
\* call it made ("none" when it made neither).
Outcome(txs, msg) == [transactions |-> txs, msg |-> msg]

-----------------------------------------------------------------------------
(* pandas, as the three files use it                                       *)

\* pd.DataFrame(transactions): one row per dict, labelled 0 .. n-1
pd_DataFrame(txs) ==
    [i \in 1 .. Len(txs) |->
        [index |-> i - 1, date |-> txs[i].date, description |-> txs[i].description,
         amount |-> txs[i].amount, category |-> txs[i].category, type |-> txs[i].type]]

\* pd.to_datetime(df['date']): a datetime.date becomes the Timestamp of that
\* day's midnight
pd_to_datetime(df) ==
    [i \in 1 .. Len(df) |-> [df[i] EXCEPT !.date = [day |-> df[i].date, ns |-> 0]]]

TimestampLE(a, b) == a.day < b.day \/ (a.day = b.day /\ a.ns <= b.ns)

Perms(n) == {p \in [1 .. n -> 1 .. n] : \A i, j \in 1 .. n : p[i] = p[j] => i = j}

\* df.sort_values('date'): kind defaults to 'quicksort', which pandas
\* documents as not stable.  The rows come out in ascending order of the
\* key; the order of rows with equal keys is whatever the sort routine of
\* the installed numpy leaves for a frame of that length, so every ordering
\* of them is an outcome.
pd_sort_values_date(df) ==
    {[i \in 1 .. Len(df) |-> df[p[i]]] :
        p \in {q \in Perms(Len(df)) :
                 \A i, j \in 1 .. Len(df) :
                     i < j => TimestampLE(df[q[i]].date, df[q[j]].date)}}

\* df.apply(lambda x: x['amount'] if x['type'] == 'Income' else -x['amount'], axis=1)
signed_amount(df) ==
    [i \in 1 .. Len(df) |-> IF df[i].type = "Income" THEN df[i].amount ELSE -df[i].amount]

\* Series.cumsum()
pd_cumsum(xs) == [i \in 1 .. Len(xs) |-> py_sum(SubSeq(xs, 1, i))]

\* df['cumulative'] = ...
with_cumulative(df) ==
    LET c == pd_cumsum(signed_amount(df))
    IN  [i \in 1 .. Len(df) |->
            [index |-> df[i].index, date |-> df[i].date, description |-> df[i].description,
             amount |-> df[i].amount, category |-> df[i].category, type |-> df[i].type,
             cumulative |-> c[i]]]

\* A slip: the filter on the type forgotten.
expense_rows_unfiltered(txs) == SelectSeq(txs, LAMBDA t : TRUE)

\* [t for t in transactions if t['type'] == 'Expense']
expense_rows(txs) == SelectSeq(txs, LAMBDA t : t.type = "Expense")

\* df.groupby('category')['amount'].sum(): one key per category among the
\* rows, its value the sum of the amounts of that category's rows
pd_groupby_category_sum(df) ==
    [c \in {df[i].category : i \in DOMAIN df} |->
        LET g == SelectSeq(df, LAMBDA r : r.category = c)
        IN  py_sum([i \in 1 .. Len(g) |-> g[i].amount])]

\* The order of category_sum.index: groupby sorts its keys.
CategoryOrder ==
    <<"Bills", "Entertainment", "Food", "Other", "Pets", "Salary", "Transport">>

index_of(category_sum) == SelectSeq(CategoryOrder, LAMBDA c : c \in DOMAIN category_sum)

\* What a chart function left on the page.
NoChart == [drawn |-> FALSE, rows |-> <<>>]
Chart(rows) == [drawn |-> TRUE, rows |-> rows]
NoBreakdown == [drawn |-> FALSE, category_sum |-> <<>>]
Breakdown(category_sum) == [drawn |-> TRUE, category_sum |-> category_sum]

\* One st.error ("over") or st.success ("under") of a budget comparison.
Status(cat, status) == [cat |-> cat, status |-> status]

-----------------------------------------------------------------------------
(* src/DDP_PROJECT/DDP_PROJECT.py                                          *)

DDP_calculate_total_income(txs) == py_sum(AmountsOfType(txs, "Income"))

DDP_calculate_total_expenses(txs) == py_sum(AmountsOfType(txs, "Expense"))

DDP_calculate_balance(txs) ==
    LET income == DDP_calculate_total_income(txs)
        expenses == DDP_calculate_total_expenses(txs)
    IN  income - expenses

\* A slip: the amount test left out.
DDP_add_transaction_anyamount(txs, date, description, amount, category, transaction_type) ==
    IF transaction_type \notin {"Income", "Expense"} THEN Outcome(txs, "error")
    ELSE Outcome(Append(txs, Tx(date, description, amount, category, transaction_type)),
                 "success")

DDP_add_transaction(txs, date, description, amount, category, transaction_type) ==
    IF amount <= 0 THEN Outcome(txs, "error")
    ELSE IF transaction_type \notin {"Income", "Expense"} THEN Outcome(txs, "error")
    ELSE Outcome(Append(txs, Tx(date, description, amount, category, transaction_type)),
                 "success")

\* A slip: the last entry removed, whatever the index (transactions.pop()).
DDP_delete_transaction_pop(txs, index) ==
    IF 0 <= index /\ index < Len(txs)
    THEN Outcome(SubSeq(txs, 1, Len(txs) - 1), "success")
    ELSE Outcome(txs, "error")

DDP_delete_transaction(txs, index) ==
    IF 0 <= index /\ index < Len(txs)
    THEN Outcome(py_del(txs, index), "success")
    ELSE Outcome(txs, "error")

DDP_plot_expense_pie(txs) ==
    LET expenses == expense_rows(txs)
    IN  IF expenses = <<>> THEN NoBreakdown
        ELSE Breakdown(pd_groupby_category_sum(pd_DataFrame(expenses)))

\* A slip: one point per distinct date (the last row of each date kept).
DDP_plot_balance_over_time_per_date(txs) ==
    IF txs = <<>> THEN {NoChart}
    ELSE {LET rows == with_cumulative(df)
              keep == {i \in DOMAIN rows :
                         \A j \in DOMAIN rows : j > i => rows[j].date # rows[i].date}
          IN  Chart([k \in 1 .. Cardinality(keep) |->
                        rows[CHOOSE i \in keep : Cardinality({j \in keep : j <= i}) = k]]) :
            df \in pd_sort_values_date(pd_to_datetime(pd_DataFrame(txs)))}

\* The charts plot_balance_over_time can draw: the points are the rows of the
\* sorted frame, (date, cumulative).
DDP_plot_balance_over_time(txs) ==
    IF txs = <<>> THEN {NoChart}
    ELSE {Chart(with_cumulative(df)) :
            df \in pd_sort_values_date(pd_to_datetime(pd_DataFrame(txs)))}

DDP_budget_categories == <<"Food", "Transport", "Entertainment", "Bills", "Other">>

\* category_sum.get(cat, 0)
series_get(category_sum, cat, default) ==
    IF cat \in DOMAIN category_sum THEN category_sum[cat] ELSE default

RECURSIVE DDP_compare_ge(_, _, _)
\* A slip: actual >= budget reported as over budget.
DDP_compare_ge(category_sum, budgets, k) ==
    IF k = 0 THEN <<>>
    ELSE LET cat == DDP_budget_categories[k]
             budget == budgets[cat]
             actual == series_get(category_sum, cat, 0)
             before == DDP_compare_ge(category_sum, budgets, k - 1)
         IN  IF actual >= budget /\ budget > 0 THEN Append(before, Status(cat, "over"))
             ELSE IF budget > 0 THEN Append(before, Status(cat, "under"))
             ELSE before

RECURSIVE DDP_compare(_, _, _)
\* for cat, budget in budgets.items(): ... over the first k categories
DDP_compare(category_sum, budgets, k) ==
    IF k = 0 THEN <<>>
    ELSE LET cat == DDP_budget_categories[k]
             budget == budgets[cat]
             actual == series_get(category_sum, cat, 0)
             before == DDP_compare(category_sum, budgets, k - 1)
         IN  IF actual > budget /\ budget > 0 THEN Append(before, Status(cat, "over"))
             ELSE IF budget > 0 THEN Append(before, Status(cat, "under"))
             ELSE before

-----------------------------------------------------------------------------
(* src/DDP_PROJECT/b.py                                                    *)

b_calculate_total_income(txs) == py_sum(AmountsOfType(txs, "Income"))

\* A slip: everything that is not Income counted as an expense.
b_calculate_total_expenses_NotIncome(txs) ==
    py_sum([i \in 1 .. Len(SelectSeq(txs, LAMBDA t : t.type # "Income")) |->
                SelectSeq(txs, LAMBDA t : t.type # "Income")[i].amount])

b_calculate_total_expenses(txs) == py_sum(AmountsOfType(txs, "Expense"))

b_calculate_balance(txs) ==
    b_calculate_total_income(txs) - b_calculate_total_expenses(txs)

\* A slip: a category outside the widget's list stored as "Other".
b_add_transaction_whitelist(txs, date, description, amount, category, transaction_type) ==
    IF amount <= 0 THEN Outcome(txs, "error")
    ELSE Outcome(Append(txs, Tx(date, description, amount,
                                IF category \in {"Food", "Transport", "Entertainment",
                                                 "Bills", "Salary", "Other"}
                                THEN category ELSE "Other",
                                transaction_type)),
                 "success")

b_add_transaction(txs, date, description, amount, category, transaction_type) ==
    IF amount <= 0 THEN Outcome(txs, "error")
    ELSE Outcome(Append(txs, Tx(date, description, amount, category, transaction_type)),
                 "success")

b_delete_transaction(txs, index) ==
    IF 0 <= index /\ index < Len(txs)
    THEN Outcome(py_del(txs, index), "success")
    ELSE Outcome(txs, "none")

b_plot_expense_pie(txs) ==
    LET expenses == expense_rows(txs)
    IN  IF expenses = <<>> THEN NoBreakdown
        ELSE Breakdown(pd_groupby_category_sum(pd_DataFrame(expenses)))

b_plot_balance_over_time(txs) ==
    IF txs = <<>> THEN {NoChart}
    ELSE {Chart(with_cumulative(df)) :
            df \in pd_sort_values_date(pd_to_datetime(pd_DataFrame(txs)))}

RECURSIVE b_compare(_, _, _)
\* for cat in category_sum.index: budget = st.number_input(...); ...
b_compare(category_sum, budgets, k) ==
    IF k = 0 THEN <<>>
    ELSE LET cat == index_of(category_sum)[k]
             budget == budgets[cat]
             actual == category_sum[cat]
             before == b_compare(category_sum, budgets, k - 1)
         IN  IF budget > 0
             THEN IF actual > budget THEN Append(before, Status(cat, "over"))
                  ELSE Append(before, Status(cat, "under"))
             ELSE before

-----------------------------------------------------------------------------
(* src/cobacoba.py                                                         *)

coba_calculate_total_income(txs) == py_sum(AmountsOfType(txs, "Income"))

coba_calculate_total_expenses(txs) == py_sum(AmountsOfType(txs, "Expense"))

coba_calculate_balance(txs) ==
    coba_calculate_total_income(txs) - coba_calculate_total_expenses(txs)

\* A slip: amount < 0 tested instead of amount <= 0.
coba_add_transaction_lt(txs, date, description, amount, category, transaction_type) ==
    IF amount < 0 THEN Outcome(txs, "error")
    ELSE Outcome(Append(txs, Tx(date, description, amount, category, transaction_type)),
                 "success")

coba_add_transaction(txs, date, description, amount, category, transaction_type) ==
    IF amount <= 0 THEN Outcome(txs, "error")
    ELSE Outcome(Append(txs, Tx(date, description, amount, category, transaction_type)),
                 "success")

\* A slip: the lower bound of the index test dropped; Python then counts a
\* negative index from the end of the list.
coba_delete_transaction_nolower(txs, index) ==
    IF index < Len(txs)
    THEN IF index >= 0 THEN Outcome(py_del(txs, index), "success")
         ELSE IF Len(txs) + index >= 0
              THEN Outcome(py_del(txs, Len(txs) + index), "success")
              ELSE Outcome(txs, "raise")
    ELSE Outcome(txs, "none")

coba_delete_transaction(txs, index) ==
    IF 0 <= index /\ index < Len(txs)
    THEN Outcome(py_del(txs, index), "success")
    ELSE Outcome(txs, "none")

coba_plot_expense_bar(txs) ==
    LET expenses == expense_rows(txs)
    IN  IF expenses = <<>> THEN NoBreakdown
        ELSE Breakdown(pd_groupby_category_sum(pd_DataFrame(expenses)))

coba_plot_balance_over_time(txs) ==
    IF txs = <<>> THEN {NoChart}
    ELSE {Chart(with_cumulative(df)) :
            df \in pd_sort_values_date(pd_to_datetime(pd_DataFrame(txs)))}

RECURSIVE coba_messages(_, _, _)
\* for cat in category_sum.index: budget = budgets[cat]; ...
coba_messages(category_sum, budgets, k) ==
    IF k = 0 THEN <<>>
    ELSE LET cat == index_of(category_sum)[k]
             budget == budgets[cat]
             actual == category_sum[cat]
             before == coba_messages(category_sum, budgets, k - 1)
         IN  IF budget > 0
             THEN IF actual > budget THEN Append(before, Status(cat, "over"))
                  ELSE Append(before, Status(cat, "under"))
             ELSE before

\* if any(budgets.values()): ... the messages of every category
coba_compare(category_sum, budgets) ==
    IF \E cat \in DOMAIN budgets : budgets[cat] # 0
    THEN coba_messages(category_sum, budgets, Len(index_of(category_sum)))
    ELSE <<>>

-----------------------------------------------------------------------------
(* The session: the ledger calls                                           *)

NoView == [kind |-> "none"]

LastAdd(tx, msg) == [op |-> "add", tx |-> tx, index |-> 0, msg |-> msg]
LastDelete(index, msg) == [op |-> "delete", tx |-> NoTx, index |-> index, msg |-> msg]
LastReset == [op |-> "reset", tx |-> NoTx, index |-> 0, msg |-> "success"]
LastNone == [op |-> "none", tx |-> NoTx, index |-> 0, msg |-> "none"]

\* if 'transactions' not in st.session_state: st.session_state.transactions = []
Init ==
    /\ variant \in Variants
    /\ transactions = <<>>
    /\ last = LastNone
    /\ view = NoView

\* One ledger call with outcome r: the list is the one the call left.
Apply(r, l) ==
    /\ Len(r.transactions) <= MaxLen
    /\ transactions' = r.transactions
    /\ last' = l
    /\ view' = NoView
    /\ UNCHANGED variant

DDP_Add ==
    /\ variant = "DDP_PROJECT"
    /\ \E a \in AddInputs :
        LET r == DDP_add_transaction(transactions, a.date, a.description, a.amount,
                                     a.category, a.type)
        IN  Apply(r, LastAdd(a, r.msg))

DDP_Delete ==
    /\ variant = "DDP_PROJECT"
    /\ \E i \in DeleteInputs(Len(transactions)) :
        LET r == DDP_delete_transaction(transactions, i)
        IN  Apply(r, LastDelete(i, r.msg))

DDP_Reset ==
    /\ variant = "DDP_PROJECT"
    /\ Apply(Outcome(<<>>, "success"), LastReset)

b_Add ==
    /\ variant = "b"
    /\ \E a \in AddInputs :
        LET r == b_add_transaction(transactions, a.date, a.description, a.amount,
                                   a.category, a.type)
        IN  Apply(r, LastAdd(a, r.msg))

b_Delete ==
    /\ variant = "b"
    /\ \E i \in DeleteInputs(Len(transactions)) :
        LET r == b_delete_transaction(transactions, i)
        IN  Apply(r, LastDelete(i, r.msg))

b_Reset ==
    /\ variant = "b"
    /\ Apply(Outcome(<<>>, "success"), LastReset)

coba_Add ==
    /\ variant = "cobacoba"
    /\ \E a \in AddInputs :
        LET r == coba_add_transaction(transactions, a.date, a.description, a.amount,
                                      a.category, a.type)
        IN  Apply(r, LastAdd(a, r.msg))

coba_Delete ==
    /\ variant = "cobacoba"
    /\ \E i \in DeleteInputs(Len(transactions)) :
        LET r == coba_delete_transaction(transactions, i)
        IN  Apply(r, LastDelete(i, r.msg))

coba_Reset ==
    /\ variant = "cobacoba"
    /\ Apply(Outcome(<<>>, "success"), LastReset)

Next ==
    \/ DDP_Add \/ DDP_Delete \/ DDP_Reset
    \/ b_Add \/ b_Delete \/ b_Reset
    \/ coba_Add \/ coba_Delete \/ coba_Reset

Spec == Init /\ [][Next]_vars

-----------------------------------------------------------------------------
(* The session: the pages that only read the ledger                        *)

\* The ledgers a session of program v can hold: any sequence of entries its
\* add_transaction accepts.
Accepted(v) ==
    {a \in AddInputs :
        (CASE v = "DDP_PROJECT" ->
                DDP_add_transaction(<<>>, a.date, a.description, a.amount, a.category, a.type)
           [] v = "b" ->
                b_add_transaction(<<>>, a.date, a.description, a.amount, a.category, a.type)
           [] v = "cobacoba" ->
                coba_add_transaction(<<>>, a.date, a.description, a.amount, a.category, a.type)
        ).msg = "success"}

Ledgers(v, inputs) == UNION {[1 .. n -> inputs] : n \in 0 .. MaxLen}

LastPage(page) == [op |-> page, tx |-> NoTx, index |-> 0, msg |-> "none"]

Reports(expense, balance) == [kind |-> "reports", expense |-> expense, balance |-> balance]

\* Reports page: if transactions: plot_expense_pie, plot_balance_over_time
DDP_Reports ==
    /\ variant = "DDP_PROJECT"
    /\ \E chart \in DDP_plot_balance_over_time(transactions) :
        view' = IF transactions # <<>>
                THEN Reports(DDP_plot_expense_pie(transactions), chart)
                ELSE Reports(NoBreakdown, NoChart)
    /\ last' = LastPage("reports")
    /\ UNCHANGED <<variant, transactions>>

\* Laporan page
b_Laporan ==
    /\ variant = "b"
    /\ \E chart \in b_plot_balance_over_time(transactions) :
        view' = Reports(b_plot_expense_pie(transactions), chart)
    /\ last' = LastPage("reports")
    /\ UNCHANGED <<variant, transactions>>

\* Laporan page
coba_Laporan ==
    /\ variant = "cobacoba"
    /\ \E chart \in coba_plot_balance_over_time(transactions) :
        view' = Reports(coba_plot_expense_bar(transactions), chart)
    /\ last' = LastPage("reports")
    /\ UNCHANGED <<variant, transactions>>

\* The budgets typed into the number inputs of the given categories.
BudgetInputs(cats) == [cats -> {0, 2}]

Budget(shown, category_sum, budgets, requested, messages) ==
    [kind |-> "budget", shown |-> shown, category_sum |-> category_sum,
     budgets |-> budgets, requested |-> requested, messages |-> messages]

Range(f) == {f[i] : i \in DOMAIN f}

\* Budget Analysis page; clicked: the Compare button was pressed
DDP_BudgetAnalysis ==
    /\ variant = "DDP_PROJECT"
    /\ LET expenses == expense_rows(transactions)
       IN  IF expenses # <<>>
           THEN LET category_sum == pd_groupby_category_sum(pd_DataFrame(expenses))
                IN  \E budgets \in BudgetInputs(Range(DDP_budget_categories)),
                       clicked \in BOOLEAN :
                        view' = Budget(TRUE, category_sum, budgets, clicked,
                                       IF clicked
                                       THEN DDP_compare(category_sum, budgets,
                                                        Len(DDP_budget_categories))
                                       ELSE <<>>)
           ELSE view' = Budget(FALSE, <<>>, <<>>, FALSE, <<>>)
    /\ last' = LastPage("budget")
    /\ UNCHANGED <<variant, transactions>>

\* Analisis Budget page
b_AnalisisBudget ==
    /\ variant = "b"
    /\ LET expenses == expense_rows(transactions)
       IN  IF expenses # <<>>
           THEN LET category_sum == pd_groupby_category_sum(pd_DataFrame(expenses))
                IN  \E budgets \in BudgetInputs(DOMAIN category_sum) :
                        view' = Budget(TRUE, category_sum, budgets, TRUE,
                                       b_compare(category_sum, budgets,
                                                 Len(index_of(category_sum))))
           ELSE view' = Budget(FALSE, <<>>, <<>>, FALSE, <<>>)
    /\ last' = LastPage("budget")
    /\ UNCHANGED <<variant, transactions>>

\* Analisis Budget page
coba_AnalisisBudget ==
    /\ variant = "cobacoba"
    /\ LET expenses == expense_rows(transactions)
       IN  IF expenses # <<>>
           THEN LET category_sum == pd_groupby_category_sum(pd_DataFrame(expenses))
                IN  \E budgets \in BudgetInputs(DOMAIN category_sum) :
                        view' = Budget(TRUE, category_sum, budgets, TRUE,
                                       coba_compare(category_sum, budgets))
           ELSE view' = Budget(FALSE, <<>>, <<>>, FALSE, <<>>)
    /\ last' = LastPage("budget")
    /\ UNCHANGED <<variant, transactions>>

\* A session that already holds a ledger and opens the Reports page; the
\* entries differ in date, amount and type, which is all the balance chart
\* reads.
InitSeries ==
    /\ variant \in Variants
    /\ transactions \in Ledgers(variant,
                                {a \in Accepted(variant) :
                                    a.category = "Food"
                                    /\ (a.type = "Income" \/ a.amount = 1)})
    /\ last = LastNone
    /\ view = NoView

NextSeries == DDP_Reports \/ b_Laporan \/ coba_Laporan

SpecSeries == InitSeries /\ [][NextSeries]_vars

\* A session that already holds a ledger and opens the budget page; the
\* entries all carry date 1, dates playing no part on that page.
InitBudget ==
    /\ variant \in Variants
    /\ transactions \in Ledgers(variant, {a \in Accepted(variant) : a.date = 1})
    /\ last = LastNone
    /\ view = NoView

NextBudget == DDP_BudgetAnalysis \/ b_AnalisisBudget \/ coba_AnalisisBudget

SpecBudget == InitBudget /\ [][NextBudget]_vars

-----------------------------------------------------------------------------
(* Properties of the ledger calls                                          *)

ValidTypes == {"Income", "Expense"}

\* sum of amount over the entries of txs with the given type, by position
RECURSIVE SumAt(_, _)
SumAt(txs, I) ==
    IF I = {} THEN 0
    ELSE LET i == CHOOSE i \in I : TRUE
         IN  txs[i].amount + SumAt(txs, I \ {i})

totalIncome == SumAt(transactions, {i \in DOMAIN transactions : transactions[i].type = "Income"})

totalExpenses == SumAt(transactions, {i \in DOMAIN transactions : transactions[i].type = "Expense"})

balance ==
    CASE variant = "DDP_PROJECT" -> DDP_calculate_balance(transactions)
      [] variant = "b" -> b_calculate_balance(transactions)
      [] variant = "cobacoba" -> coba_calculate_balance(transactions)

\* C1: after every sequence of add and delete calls, accepted or rejected,
\* calculate_balance equals the sum of the Income amounts in the ledger minus
\* the sum of its Expense amounts.
C1_BalanceIsIncomeMinusExpenses == balance = totalIncome - totalExpenses

\* C1 witness: a delete has just succeeded and left both an Income and an
\* Expense entry, the expenses exceeding the income.
C1_Witness ==
    /\ last.op = "delete" /\ last.msg = "success"
    /\ totalIncome > 0
    /\ totalExpenses > totalIncome
    /\ balance < 0

\* C2: an add call with amount <= 0 is rejected and leaves the ledger
\* sequence exactly as it was.
C2_NonPositiveAmountRejected ==
    [][(last'.op = "add" /\ last'.tx.amount <= 0)
        => (transactions' = transactions /\ last'.msg = "error")]_vars

\* C2 witness: add with amount -5 was just called on a ledger of two entries.
C2_Witness ==
    /\ last.op = "add" /\ last.tx.amount = -5
    /\ Len(transactions) = 2

\* C3: an add call with amount > 0 and a type outside Income/Expense is
\* rejected and appends nothing, so every entry of the ledger has type Income
\* or Expense.
C3_InvalidTypeRejected ==
    /\ (last.op = "add" /\ last.tx.amount > 0 /\ last.tx.type \notin ValidTypes)
         => last.msg = "error"
    /\ \A i \in DOMAIN transactions : transactions[i].type \in ValidTypes

\* C4: delete with index < 0 or index >= length is rejected and leaves the
\* ledger sequence unchanged.
C4_DeleteOutOfRangeUnchanged ==
    [][(last'.op = "delete" /\ (last'.index < 0 \/ last'.index >= Len(transactions)))
        => (transactions' = transactions /\ last'.msg # "success")]_vars

\* C4 witness: delete was just called with index = length on a ledger that
\* is not empty.
C4_Witness ==
    /\ last.op = "delete" /\ last.index = Len(transactions)
    /\ Len(transactions) = 2
    /\ last.msg # "success"

\* C5: delete(i) with 0 <= i < n succeeds, the ledger has length n-1, the
\* entries before i stay where they were and every later entry moves down by
\* one position.
C5_DeleteShiftsDown ==
    [][(last'.op = "delete" /\ 0 <= last'.index /\ last'.index < Len(transactions))
        => /\ last'.msg = "success"
           /\ Len(transactions') = Len(transactions) - 1
           /\ \A j \in 1 .. last'.index : transactions'[j] = transactions[j]
           /\ \A j \in (last'.index + 1) .. (Len(transactions) - 1) :
                  transactions'[j] = transactions[j + 1]]_vars

\* C5 witness: the middle entry of three was just deleted, and the two that
\* are left differ.
C5_Witness ==
    /\ last.op = "delete" /\ last.index = 1 /\ last.msg = "success"
    /\ Len(transactions) = 2
    /\ transactions[1] # transactions[2]

\* C6: add with amount > 0 and type Income or Expense succeeds, keeps the n
\* entries in place and appends one entry carrying exactly the arguments;
\* a category outside the widget's list is accepted.
C6_AddAppendsExactly ==
    [][(last'.op = "add" /\ last'.tx.amount > 0 /\ last'.tx.type \in ValidTypes)
        => /\ last'.msg = "success"
           /\ Len(transactions') = Len(transactions) + 1
           /\ SubSeq(transactions', 1, Len(transactions)) = transactions
           /\ transactions'[Len(transactions) + 1] = last'.tx]_vars

\* C6 witness: an entry with the unlisted category Pets and the description
\* Bus was just appended to a ledger that already held entries.
C6_Witness ==
    /\ last.op = "add" /\ last.msg = "success"
    /\ last.tx.category = "Pets" /\ last.tx.description = "Bus"
    /\ Len(transactions) = 3
    /\ transactions[3] = last.tx

-----------------------------------------------------------------------------
(* Properties of the Reports page                                          *)

\* C7: the balance chart lists the entries in ascending order of date, and of
\* two entries with the same date the one added earlier comes first.
C7_SeriesStableByDate ==
    view.kind = "reports" =>
        LET rows == view.balance.rows
        IN  \A i, j \in DOMAIN rows :
                i < j => /\ TimestampLE(rows[i].date, rows[j].date)
                         /\ rows[i].date = rows[j].date => rows[i].index < rows[j].index

\* the claimed contribution of the rows at the positions I: +amount for
\* Income, -amount for Expense
RECURSIVE SumSigned(_, _)
SumSigned(rows, I) ==
    IF I = {} THEN 0
    ELSE LET i == CHOOSE i \in I : TRUE
         IN  (IF rows[i].type = "Income" THEN rows[i].amount ELSE 0)
             - (IF rows[i].type = "Expense" THEN rows[i].amount ELSE 0)
             + SumSigned(rows, I \ {i})

\* C8: the balance chart has exactly one point per entry of the ledger, also
\* for entries that share a date, and none for the empty ledger; each Income
\* point lies its amount above the point before it and each Expense point its
\* amount below, so the i-th running balance is the sum of +amount (Income)
\* and -amount (Expense) over the first i entries in the chart's order.
C8_OnePointPerTransaction ==
    view.kind = "reports" =>
        LET rows == view.balance.rows
            n == Len(transactions)
        IN  /\ Len(rows) = n
            /\ view.balance.drawn = (n > 0)
            /\ {rows[i].index : i \in DOMAIN rows} = 0 .. (n - 1)
            /\ \A i \in DOMAIN rows :
                LET t == transactions[rows[i].index + 1]
                    before == IF i = 1 THEN 0 ELSE rows[i - 1].cumulative
                IN  /\ rows[i].amount = t.amount /\ rows[i].type = t.type
                    /\ rows[i].date.day = t.date
                    /\ t.type = "Income" => rows[i].cumulative = before + t.amount
                    /\ t.type = "Expense" => rows[i].cumulative = before - t.amount
                    /\ (\A k \in 1 .. i : rows[k].type \in ValidTypes)
                         => rows[i].cumulative = SumSigned(rows, 1 .. i)

\* C8 witness: a chart of three points, two of them on the same date, with
\* income and expenses, ending below zero.
C8_Witness ==
    /\ view.kind = "reports"
    /\ Len(view.balance.rows) = 3
    /\ view.balance.rows[1].date = view.balance.rows[2].date
    /\ view.balance.rows[1].type = "Income"
    /\ view.balance.rows[2].type = "Expense"
    /\ view.balance.rows[3].cumulative < 0

-----------------------------------------------------------------------------
(* Properties of the budget page                                           *)

ExpenseAt(c) ==
    {i \in DOMAIN transactions :
        transactions[i].type = "Expense" /\ transactions[i].category = c}

\* C9: the keys of the expense breakdown are exactly the categories of the
\* Expense entries of the ledger (none when there is no expense), and the
\* value of a key is the sum of the amounts of the Expense entries of that
\* category.
C9_ExpensesByCategory ==
    view.kind = "budget" =>
        /\ DOMAIN view.category_sum =
               {transactions[i].category :
                    i \in {k \in DOMAIN transactions : transactions[k].type = "Expense"}}
        /\ \A c \in DOMAIN view.category_sum :
               view.category_sum[c] = SumAt(transactions, ExpenseAt(c))

\* C9 witness: a breakdown with the keys Food and Pets, Food being the sum of
\* two expenses.
C9_Witness ==
    /\ view.kind = "budget"
    /\ DOMAIN view.category_sum = {"Food", "Pets"}
    /\ view.category_sum["Food"] = 3
    /\ Cardinality(ExpenseAt("Food")) = 2

AllCategories == Range(CategoryOrder)

BudgetOf(c) == IF c \in DOMAIN view.budgets THEN view.budgets[c] ELSE 0

MessagesOf(c) == {k \in DOMAIN view.messages : view.messages[k].cat = c}

\* C10: when the comparison is asked for, a category with budget > 0 gets
\* exactly one status, over when its expense sum exceeds the budget and under
\* otherwise (also when both are equal); a category with budget 0 or no
\* budget gets none, whatever its expenses.
C10_BudgetComparison ==
    (view.kind = "budget" /\ view.requested) =>
        \A c \in AllCategories :
            LET actual == SumAt(transactions, ExpenseAt(c))
            IN  IF BudgetOf(c) > 0
                THEN /\ Cardinality(MessagesOf(c)) = 1
                     /\ \A k \in MessagesOf(c) :
                            view.messages[k].status =
                                IF actual > BudgetOf(c) THEN "over" ELSE "under"
                ELSE MessagesOf(c) = {}

\* C10 witness: a comparison in which a category spent exactly its budget and
\* is reported under budget, while another category with expenses has no
\* budget and no status.
C10_Witness ==
    /\ view.kind = "budget" /\ view.requested
    /\ \E c \in AllCategories :
        /\ BudgetOf(c) > 0
        /\ SumAt(transactions, ExpenseAt(c)) = BudgetOf(c)
        /\ \E k \in MessagesOf(c) : view.messages[k].status = "under"
    /\ \E c \in AllCategories :
        /\ BudgetOf(c) = 0
        /\ ExpenseAt(c) # {}
        /\ MessagesOf(c) = {}

-----------------------------------------------------------------------------
(* Properties of the ledger calls: reporting, and the amounts held         *)

\* C11: every rejected call tells its caller so: an add that appends nothing
\* (amount <= 0, or a type outside Income/Expense where that is tested) and a
\* delete with an index out of range each end in an error report, never in
\* success, in silence or in an exception.
C11_RejectionsReported ==
    [][/\ (last'.op = "add" /\ transactions' = transactions) => last'.msg = "error"
       /\ (last'.op = "delete"
           /\ (last'.index < 0 \/ last'.index >= Len(transactions)))
            => last'.msg = "error"]_vars

calculate_total_income ==
    CASE variant = "DDP_PROJECT" -> DDP_calculate_total_income(transactions)
      [] variant = "b" -> b_calculate_total_income(transactions)
      [] variant = "cobacoba" -> coba_calculate_total_income(transactions)

calculate_total_expenses ==
    CASE variant = "DDP_PROJECT" -> DDP_calculate_total_expenses(transactions)
      [] variant = "b" -> b_calculate_total_expenses(transactions)
      [] variant = "cobacoba" -> coba_calculate_total_expenses(transactions)

\* C12: after any sequence of add, delete and reset calls every entry of the
\* ledger has amount > 0, and so the income and expense totals are >= 0.
C12_AmountsPositive ==
    /\ \A i \in DOMAIN transactions : transactions[i].amount > 0
    /\ calculate_total_income >= 0
    /\ calculate_total_expenses >= 0

\* C12 witness: add was just called with amount 0 on a full ledger that
\* holds income and expenses.
C12_Witness ==
    /\ last.op = "add" /\ last.tx.amount = 0
    /\ Len(transactions) = MaxLen
    /\ calculate_total_income > 0
    /\ calculate_total_expenses > 0

====
